---- MODULE Spec2Model ----
(***************************************************************************)
(* Model of the data-access helpers of src/src/lib/supabase.ts:            *)
(*   - the keyed TTL cache      (cache, fetchWithCache, clearCache)        *)
(*   - the timeout race         (fetchWithTimeout)                         *)
(*   - the query error boundary (safeSupabaseQuery)                        *)
(* and of the search page of src/unnamed/part_000 (SearchResultsPage):     *)
(*   - the in-memory filter pipeline of the live and of the mock path      *)
(*   - the search invocations (useEffect / fetchPlaygrounds) and what the  *)
(*     page renders from its state                                         *)
(* JavaScript values are represented by strings; the value `undefined` is  *)
(* the string Undefined and `null` is the string Null.  An optional map    *)
(* lookup (Map.get) is a sequence of length 0 (undefined) or 1 (the        *)
(* entry).                                                                 *)
(***************************************************************************)
EXTENDS Integers, Sequences, FiniteSets, TLC

\* ------------------------------------------------------------------ bounds
MaxTime == 2        \* the clock (Date.now()) runs over 0..MaxTime
NumCalls == 2       \* fetchWithCache calls made in one behaviour
MaxClears == 1      \* clearCache calls made in one behaviour
NumWrapped == 1     \* fetchWithTimeout / safeSupabaseQuery calls made in one behaviour
NumSearches == 2    \* runs of the search effect in one behaviour
MaxSelected == 2    \* feature or rating boxes ticked in one query descriptor

\* ------------------------------------------------------------ value domains
Undefined == "undefined"
Null == "null"
Keys == {"", "a"}                   \* cache keys; "" is the empty string
ClearArgs == Keys \cup {Undefined}  \* clearCache(key?): a key or nothing
\* the fetcher passed to call c resolves with a payload of its own
Payload(c) == "p" \o ToString(c)
TTLs == {1, 2}                      \* ttl arguments, in clock ticks
Times == 0..MaxTime
CallIds == 1..NumCalls
WrapIds == 1..NumWrapped
SearchIds == 1..NumSearches
Timeouts == {0, 1, 2}               \* timeout arguments, in clock ticks
Fallbacks == {Null, "X"}            \* fallback / fallbackData arguments
Values == {"v1"}                    \* what a fetchWithTimeout fetcher resolves with
Errors == {"E1", Undefined}         \* what an operation can throw or reject with
TypeError == "TypeError"            \* thrown by reading a property of null
\* what a queryFn can resolve with: null (isObject = FALSE), or an object
\* whose error field is null, the empty string or an error
QueryResults ==
  {[isObject |-> FALSE, data |-> Undefined, error |-> Undefined]} \cup
  [isObject : {TRUE}, data : {"d1"}, error : {Null, "", "E1"}]

VARIABLES
  now,        \* Date.now()
  cache,      \* the module-level Map: key -> [data, timestamp]
  calls,      \* fetchWithCache activations: position, arguments, locals
  clearLog,   \* the arguments of the clearCache calls made so far
  tcalls,     \* fetchWithTimeout activations, each with its timer and race
  qcalls,     \* safeSupabaseQuery activations
  page,       \* SearchResultsPage state: playgrounds, loading, error, useMockData
  searches,   \* fetchPlaygrounds activations, one per run of the effect
  pipe        \* one run of the filter pipelines on a collection and a descriptor

vars == <<now, cache, calls, clearLog, tcalls, qcalls, page, searches, pipe>>
pageVars == <<page, searches, pipe>>
cacheVars == <<cache, calls, clearLog>>

\* ------------------------------------------------------------- Map helpers
EmptyMap == [k \in {} |-> Undefined]

MapGet(m, key) == IF key \in DOMAIN m THEN <<m[key]>> ELSE <<>>

MapSet(m, key, entry) ==
  [k \in (DOMAIN m) \cup {key} |-> IF k = key THEN entry ELSE m[k]]

MapDelete(m, key) == [k \in (DOMAIN m) \ {key} |-> m[k]]

\* JavaScript truthiness of an optional string argument
TruthyKey(key) == key # Undefined /\ key # ""

\* ---------------------------------------------------------- fetchWithCache
\* faulty variant of isFresh: >= for >, an entry exactly ttl old still counts as fresh
isFreshInclusive(cachedData, t, ttl) ==
  /\ cachedData # <<>>
  /\ cachedData[1].timestamp >= t - ttl

\* line 63: cachedData && cachedData.timestamp > Date.now() - ttl
isFresh(cachedData, t, ttl) ==
  /\ cachedData # <<>>
  /\ cachedData[1].timestamp > t - ttl

\* faulty variant of onFetcherSuccess: the entry is stored without the current time
onFetcherSuccessEpochZero(m, key, data, t) ==
  [cache |-> MapSet(m, key, [data |-> data, timestamp |-> 0]),
   pc |-> "returned", result |-> data]

\* faulty variant of onFetcherSuccess: an entry that is there is not replaced
onFetcherSuccessKeepFirst(m, key, data, t) ==
  [cache |-> IF MapGet(m, key) # <<>> THEN m
             ELSE MapSet(m, key, [data |-> data, timestamp |-> t]),
   pc |-> "returned", result |-> data]

\* faulty variant of onFetcherSuccess: the payload is returned but never stored
onFetcherSuccessNoStore(m, key, data, t) ==
  [cache |-> m, pc |-> "returned", result |-> data]

\* lines 68-70: the fetcher resolved with data
onFetcherSuccess(m, key, data, t) ==
  [cache |-> MapSet(m, key, [data |-> data, timestamp |-> t]),
   pc |-> "returned", result |-> data]

\* faulty variant of onFetcherError: the failure is rethrown without the stale fallback
onFetcherErrorRethrow(cachedData) ==
  [pc |-> "thrown", result |-> Undefined]

\* lines 71-78: the fetcher failed
onFetcherError(cachedData) ==
  IF cachedData # <<>>
  THEN [pc |-> "returned", result |-> cachedData[1].data]
  ELSE [pc |-> "thrown", result |-> Undefined]

NoCall ==
  [pc |-> "idle", key |-> "", ttl |-> 0, cachedData |-> <<>>,
   startedAt |-> 0, invoked |-> FALSE, failed |-> FALSE, result |-> Undefined]

\* lines 60-68: the synchronous part of a call, up to the await
FetchWithCacheCall(c, key, ttl) ==
  /\ calls[c].pc = "idle"
  /\ c > 1 => calls[c - 1].pc # "idle"
  /\ LET cachedData == MapGet(cache, key)
         entered == [calls[c] EXCEPT !.key = key, !.ttl = ttl,
                                     !.cachedData = cachedData,
                                     !.startedAt = now]
     IN IF isFresh(cachedData, now, ttl)
        THEN calls' = [calls EXCEPT ![c] =
                         [entered EXCEPT !.pc = "returned",
                                         !.result = cachedData[1].data]]
        ELSE calls' = [calls EXCEPT ![c] =
                         [entered EXCEPT !.pc = "awaiting",
                                         !.invoked = TRUE]]
  /\ UNCHANGED <<now, cache, clearLog, tcalls, qcalls, pageVars>>

\* lines 68-70: the awaited fetcher resolves with data
FetcherResolves(c) ==
  /\ calls[c].pc = "awaiting"
  /\ LET r == onFetcherSuccess(cache, calls[c].key, Payload(c), now)
     IN /\ cache' = r.cache
        /\ calls' = [calls EXCEPT ![c].pc = r.pc, ![c].result = r.result]
  /\ UNCHANGED <<now, clearLog, tcalls, qcalls, pageVars>>

\* lines 71-78: the awaited fetcher rejects (or fetcher() threw)
FetcherRejects(c) ==
  /\ calls[c].pc = "awaiting"
  /\ LET r == onFetcherError(calls[c].cachedData)
     IN calls' = [calls EXCEPT ![c].pc = r.pc, ![c].result = r.result,
                               ![c].failed = TRUE]
  /\ UNCHANGED <<now, cache, clearLog, tcalls, qcalls, pageVars>>

\* -------------------------------------------------------------- clearCache
\* faulty variant of clearCache: without a key nothing is cleared
clearCacheKeyOnly(m, key) ==
  IF TruthyKey(key) THEN MapDelete(m, key) ELSE m

\* lines 82-88
clearCache(m, key) ==
  IF TruthyKey(key) THEN MapDelete(m, key) ELSE EmptyMap

ClearCache(key) ==
  /\ Len(clearLog) < MaxClears
  /\ cache' = clearCache(cache, key)
  /\ clearLog' = Append(clearLog, key)
  /\ UNCHANGED <<now, calls, tcalls, qcalls, pageVars>>

\* -------------------------------------------------------- fetchWithTimeout
NoTimeoutCall ==
  [pc |-> "idle", fallback |-> Null, timer |-> "none", due |-> 0,
   op |-> "none", opValue |-> Undefined, raceBy |-> "none",
   value |-> Undefined]

NoQuery ==
  [pc |-> "idle", fallbackData |-> Null, op |-> "none",
   opResult |-> [isObject |-> FALSE, data |-> Undefined, error |-> Undefined],
   opError |-> Undefined,
   triple |-> [data |-> Undefined, error |-> Undefined, usedFallback |-> FALSE]]

\* the calls of both wrappers started so far
WrappedStarted ==
  Cardinality({c \in WrapIds : tcalls[c].pc # "idle"}) +
  Cardinality({c \in WrapIds : qcalls[c].pc # "idle"})

\* lines 193-194: the race fulfilled with the fetcher's value
timeoutReturn(result) == [pc |-> "returned", value |-> result]

\* faulty variant of timeoutCatch: the fallback argument is ignored
timeoutCatchNull(fallback) == [pc |-> "returned", value |-> Null]

\* lines 195-198: the race rejected, or fetcher() threw
timeoutCatch(fallback) == [pc |-> "returned", value |-> fallback]

\* lines 186-193: the timer is created, then fetcher() is called
FetchWithTimeoutCall(c, timeout, fallback, throws) ==
  /\ tcalls[c].pc = "idle"
  /\ WrappedStarted < NumWrapped
  /\ now + timeout <= MaxTime
  /\ LET entered == [tcalls[c] EXCEPT !.fallback = fallback,
                                      !.timer = "pending",
                                      !.due = now + timeout]
         caught == timeoutCatch(fallback)
     IN IF throws
        THEN tcalls' = [tcalls EXCEPT ![c] =
                          [entered EXCEPT !.op = "threw", !.pc = caught.pc,
                                          !.value = caught.value]]
        ELSE tcalls' = [tcalls EXCEPT ![c] =
                          [entered EXCEPT !.op = "pending", !.pc = "awaiting"]]
  /\ UNCHANGED <<now, cacheVars, qcalls, pageVars>>

\* the fetcher's promise fulfils; it wins the race if the race is unsettled
TimeoutFetcherResolves(c, v) ==
  /\ tcalls[c].op = "pending"
  /\ LET t == [tcalls[c] EXCEPT !.op = "resolved", !.opValue = v]
         r == timeoutReturn(v)
     IN IF tcalls[c].raceBy = "none"
        THEN tcalls' = [tcalls EXCEPT ![c] =
                          [t EXCEPT !.raceBy = "fetcher", !.pc = r.pc,
                                    !.value = r.value]]
        ELSE tcalls' = [tcalls EXCEPT ![c] = t]
  /\ UNCHANGED <<now, cacheVars, qcalls, pageVars>>

\* the fetcher's promise rejects
TimeoutFetcherRejects(c) ==
  /\ tcalls[c].op = "pending"
  /\ LET t == [tcalls[c] EXCEPT !.op = "rejected"]
         r == timeoutCatch(tcalls[c].fallback)
     IN IF tcalls[c].raceBy = "none"
        THEN tcalls' = [tcalls EXCEPT ![c] =
                          [t EXCEPT !.raceBy = "fetcher", !.pc = r.pc,
                                    !.value = r.value]]
        ELSE tcalls' = [tcalls EXCEPT ![c] = t]
  /\ UNCHANGED <<now, cacheVars, qcalls, pageVars>>

\* line 189: the timer's callback runs and rejects timeoutPromise
TimerFires(c) ==
  /\ tcalls[c].timer = "pending"
  /\ now >= tcalls[c].due
  /\ LET t == [tcalls[c] EXCEPT !.timer = "fired"]
         r == timeoutCatch(tcalls[c].fallback)
     IN IF tcalls[c].op = "pending" /\ tcalls[c].raceBy = "none"
        THEN tcalls' = [tcalls EXCEPT ![c] =
                          [t EXCEPT !.raceBy = "timer", !.pc = r.pc,
                                    !.value = r.value]]
        ELSE tcalls' = [tcalls EXCEPT ![c] = t]
  /\ UNCHANGED <<now, cacheVars, qcalls, pageVars>>

\* ------------------------------------------------------- safeSupabaseQuery
\* faulty variant of TruthyError: a strict comparison with null
NotNullError(e) == e # Null

\* JavaScript truthiness of result.error
TruthyError(e) == e # Null /\ e # Undefined /\ e # ""

\* lines 213-216: the catch block
safeCatch(error, fallbackData) ==
  [pc |-> "returned",
   triple |-> [data |-> fallbackData, error |-> error, usedFallback |-> TRUE]]

\* faulty variant of safeInspect: the TypeError of reading null.error escapes
safeInspectUnguarded(result, fallbackData) ==
  IF ~result.isObject
  THEN [pc |-> "rejected",
        triple |-> [data |-> Undefined, error |-> Undefined,
                    usedFallback |-> FALSE]]
  ELSE IF result.error # Null /\ result.error # Undefined /\ result.error # ""
       THEN [pc |-> "returned",
             triple |-> [data |-> fallbackData, error |-> result.error,
                         usedFallback |-> TRUE]]
       ELSE [pc |-> "returned",
             triple |-> [data |-> result.data, error |-> Null,
                         usedFallback |-> FALSE]]

\* lines 206-212: the statements after the await; reading result.error of
\* null throws a TypeError inside the try block
safeInspect(result, fallbackData) ==
  IF ~result.isObject
  THEN safeCatch(TypeError, fallbackData)
  ELSE IF TruthyError(result.error)
       THEN [pc |-> "returned",
             triple |-> [data |-> fallbackData, error |-> result.error,
                         usedFallback |-> TRUE]]
       ELSE [pc |-> "returned",
             triple |-> [data |-> result.data, error |-> Null,
                         usedFallback |-> FALSE]]

\* lines 202-204: queryFn() is called; it throws or hands back a promise
SafeSupabaseQueryCall(c, fallbackData, throws, e) ==
  /\ qcalls[c].pc = "idle"
  /\ WrappedStarted < NumWrapped
  /\ LET entered == [qcalls[c] EXCEPT !.fallbackData = fallbackData]
         caught == safeCatch(e, fallbackData)
     IN IF throws
        THEN qcalls' = [qcalls EXCEPT ![c] =
                          [entered EXCEPT !.op = "threw", !.opError = e,
                                          !.pc = caught.pc,
                                          !.triple = caught.triple]]
        ELSE /\ e = Undefined
             /\ qcalls' = [qcalls EXCEPT ![c] =
                             [entered EXCEPT !.op = "pending",
                                             !.pc = "awaiting"]]
  /\ UNCHANGED <<now, cacheVars, tcalls, pageVars>>

\* lines 204-212: the awaited promise fulfils with result
QueryResolves(c, result) ==
  /\ qcalls[c].pc = "awaiting"
  /\ LET r == safeInspect(result, qcalls[c].fallbackData)
     IN qcalls' = [qcalls EXCEPT ![c].op = "resolved", ![c].opResult = result,
                                 ![c].pc = r.pc, ![c].triple = r.triple]
  /\ UNCHANGED <<now, cacheVars, tcalls, pageVars>>

\* lines 204, 213-216: the awaited promise rejects with e
QueryRejects(c, e) ==
  /\ qcalls[c].pc = "awaiting"
  /\ LET r == safeCatch(e, qcalls[c].fallbackData)
     IN qcalls' = [qcalls EXCEPT ![c].op = "rejected", ![c].opError = e,
                                 ![c].pc = r.pc, ![c].triple = r.triple]
  /\ UNCHANGED <<now, cacheVars, tcalls, pageVars>>

\* ------------------------------------------------- JavaScript string helpers
\* the strings of the model are ASCII: "@" stands for the letter e with an
\* acute accent and "&" for its upper-case form
UpperCase == "ABCDEFGHIJKLMNOPQRSTUVWXYZ&"
LowerCase == "abcdefghijklmnopqrstuvwxyz@"
Digits == "0123456789"

CharAt(s, i) == SubSeq(s, i, i)

\* the first position of character ch in s, 0 when there is none
IndexOf(s, ch) ==
  IF \E i \in 1..Len(s) : CharAt(s, i) = ch
  THEN CHOOSE i \in 1..Len(s) :
         /\ CharAt(s, i) = ch
         /\ \A j \in 1..(i - 1) : CharAt(s, j) # ch
  ELSE 0

\* the lower-case letter of every upper-case letter
LowerOf ==
  [ch \in {CharAt(UpperCase, i) : i \in 1..Len(UpperCase)} |->
     CharAt(LowerCase, IndexOf(UpperCase, ch))]

toLowerChar(ch) == IF ch \in DOMAIN LowerOf THEN LowerOf[ch] ELSE ch

\* String.prototype.toLowerCase
RECURSIVE toLowerCase(_)
toLowerCase(s) ==
  IF Len(s) <= 1 THEN toLowerChar(s)
  ELSE toLowerCase(SubSeq(s, 1, Len(s) \div 2))
         \o toLowerCase(SubSeq(s, Len(s) \div 2 + 1, Len(s)))

\* String.prototype.includes
includes(t, s) ==
  \E i \in 1..(Len(t) - Len(s) + 1) : SubSeq(t, i, i + Len(s) - 1) = s

\* String.prototype.trim, for blanks
RECURSIVE trim(_)
trim(s) ==
  IF s = "" THEN ""
  ELSE IF CharAt(s, 1) = " " THEN trim(SubSeq(s, 2, Len(s)))
  ELSE IF CharAt(s, Len(s)) = " " THEN trim(SubSeq(s, 1, Len(s) - 1))
  ELSE s

\* s.split(ch)[0]
SplitFirst(s, ch) ==
  IF IndexOf(s, ch) = 0 THEN s ELSE SubSeq(s, 1, IndexOf(s, ch) - 1)

\* s.split(ch)[1]: undefined when s has no ch
SplitSecond(s, ch) ==
  IF IndexOf(s, ch) = 0 THEN [defined |-> FALSE, text |-> ""]
  ELSE LET rest == SubSeq(s, IndexOf(s, ch) + 1, Len(s))
       IN [defined |-> TRUE, text |-> SplitFirst(rest, ch)]

RECURSIVE DigitsValue(_)
DigitsValue(s) ==
  IF s = "" THEN 0
  ELSE DigitsValue(SubSeq(s, 1, Len(s) - 1)) * 10
         + (IndexOf(Digits, CharAt(s, Len(s))) - 1)

\* Number(s) for the strings of the model: blank is 0, a run of digits is
\* its value, anything else is NaN (signs, fractions and exponents do not
\* occur in the time ranges below)
Number(s) ==
  IF trim(s) = "" THEN [nan |-> FALSE, value |-> 0]
  ELSE IF \A i \in 1..Len(trim(s)) : IndexOf(Digits, CharAt(trim(s), i)) # 0
       THEN [nan |-> FALSE, value |-> DigitsValue(trim(s))]
       ELSE [nan |-> TRUE, value |-> 0]

\* ------------------------------------------------------------ venue records
NoHours == [day \in {} |-> ""]

\* supabase.ts lines 91-170: the bundled mock dataset (ids 1..3), followed by
\* rows a remote table can hold: no features, rating or hours (4), upper-case
\* tags and one early day (5), rating 0 and hours without a closing part
\* (6), one late day (7)
Venues == <<
  [name |-> "Funky Monkeys Play Centre",
   description |-> "Vibrant indoor play centre with multi-level soft play structure.",
   city |-> "London", postcode |-> "E1 6AN",
   hasRating |-> TRUE, google_rating |-> 47,
   hasFeatures |-> TRUE,
   features |-> <<"Soft Play", "Ball Pit", "Caf@", "Party Rooms">>,
   hasHours |-> TRUE,
   opening_hours |-> [Monday |-> "9:00-18:00", Tuesday |-> "9:00-18:00",
                      Wednesday |-> "9:00-18:00", Thursday |-> "9:00-18:00",
                      Friday |-> "9:00-19:00", Saturday |-> "9:00-19:00",
                      Sunday |-> "10:00-18:00"]],
  [name |-> "Adventure World",
   description |-> "Exciting indoor playground with climbing walls and tube slides.",
   city |-> "Manchester", postcode |-> "M4 1HQ",
   hasRating |-> TRUE, google_rating |-> 45,
   hasFeatures |-> TRUE,
   features |-> <<"Climbing Walls", "Slides", "Gaming Zone", "Caf@">>,
   hasHours |-> TRUE,
   opening_hours |-> [Monday |-> "10:00-18:00", Tuesday |-> "10:00-18:00",
                      Wednesday |-> "10:00-18:00", Thursday |-> "10:00-18:00",
                      Friday |-> "10:00-20:00", Saturday |-> "9:00-20:00",
                      Sunday |-> "10:00-18:00"]],
  [name |-> "Jungle Jims",
   description |-> "Jungle-themed indoor play centre with slides and rope bridges.",
   city |-> "Birmingham", postcode |-> "B2 5DP",
   hasRating |-> TRUE, google_rating |-> 43,
   hasFeatures |-> TRUE,
   features |-> <<"Soft Play", "Ball Cannons", "Rope Bridges", "Caf@">>,
   hasHours |-> TRUE,
   opening_hours |-> [Monday |-> "9:30-17:30", Tuesday |-> "9:30-17:30",
                      Wednesday |-> "9:30-17:30", Thursday |-> "9:30-17:30",
                      Friday |-> "9:30-18:30", Saturday |-> "9:00-18:30",
                      Sunday |-> "10:00-17:30"]],
  [name |-> "Tiny Tots", description |-> "Play barn.",
   city |-> "Leeds", postcode |-> "LS1 4AP",
   hasRating |-> FALSE, google_rating |-> 0,
   hasFeatures |-> FALSE, features |-> <<>>,
   hasHours |-> FALSE, opening_hours |-> NoHours],
  [name |-> "Jungle Gym", description |-> "Climbing and slides.",
   city |-> "London", postcode |-> "N1 9GU",
   hasRating |-> TRUE, google_rating |-> 30,
   hasFeatures |-> TRUE, features |-> <<"TODDLER AREA", "Free Parking">>,
   hasHours |-> TRUE,
   opening_hours |-> [Friday |-> "9:30-17:30", Monday |-> "",
                      Tuesday |-> "9:00 - 17:00"]],
  [name |-> "Play Shed", description |-> "Small soft play.",
   city |-> "York", postcode |-> "YO1 7HH",
   hasRating |-> TRUE, google_rating |-> 0,
   hasFeatures |-> TRUE, features |-> <<>>,
   hasHours |-> TRUE,
   opening_hours |-> [Friday |-> "Closed", Saturday |-> "9:30-"]],
  [name |-> "Late Play", description |-> "Evening sessions.",
   city |-> "Bristol", postcode |-> "BS1 5TR",
   hasRating |-> TRUE, google_rating |-> 35,
   hasFeatures |-> TRUE, features |-> <<"party rooms">>,
   hasHours |-> TRUE,
   opening_hours |-> [Friday |-> "9:30-18:30"]] >>

\* supabase.ts lines 91-170
mockPlaygrounds == <<1, 2, 3>>

\* ------------------------------------------------------- filter pipeline
\* faulty variant of closesLate: a closing hour after 18 only
closesLateAfter18(timeRange) ==
  IF timeRange = "" THEN FALSE
  ELSE LET part == SplitSecond(timeRange, "-")
       IN IF ~part.defined THEN FALSE
          ELSE IF trim(part.text) = "" THEN FALSE
          ELSE LET hour == Number(SplitFirst(trim(part.text), ":"))
               IN ~hour.nan /\ hour.value > 18

\* part_000 lines 109-115 and 207-213: one opening-hours entry closes late
closesLate(timeRange) ==
  IF timeRange = "" THEN FALSE
  ELSE LET part == SplitSecond(timeRange, "-")
       IN IF ~part.defined THEN FALSE
          ELSE IF trim(part.text) = "" THEN FALSE
          ELSE LET hour == Number(SplitFirst(trim(part.text), ":"))
               IN ~hour.nan /\ hour.value >= 18

\* playground.features?.map(f => f.toLowerCase()) || []
lowerFeatures(playground) ==
  IF playground.hasFeatures
  THEN [j \in 1..Len(playground.features) |->
          toLowerCase(playground.features[j])]
  ELSE <<>>

\* features.some(f => one of the words is included in f)
someIncludes(features, words) ==
  \E j \in 1..Len(features) : \E w \in words : includes(features[j], w)

\* part_000 lines 76-118: the category switch of the live path
categoryMatches(playground, category) ==
  CASE category = "toddler" ->
         someIncludes(lowerFeatures(playground),
                      {"toddler", "baby", "0-2", "under 3"})
    [] category = "party" ->
         someIncludes(lowerFeatures(playground),
                      {"party", "celebration", "events"})
    [] category = "cafe" ->
         someIncludes(lowerFeatures(playground),
                      {"caf@", "cafe", "food", "refreshments"})
    [] category = "parking" ->
         someIncludes(lowerFeatures(playground),
                      {"free parking", "parking", "car park"})
    [] category = "late" ->
         /\ playground.hasHours
         /\ \E day \in DOMAIN playground.opening_hours :
              closesLate(playground.opening_hours[day])
    [] OTHER -> TRUE

\* part_000 lines 175-216: the category switch of the mock path
mockCategoryMatches(playground, category) ==
  CASE category = "toddler" ->
         someIncludes(lowerFeatures(playground),
                      {"toddler", "baby", "0-2", "under 3"})
    [] category = "party" ->
         someIncludes(lowerFeatures(playground),
                      {"party", "celebration", "events"})
    [] category = "cafe" ->
         someIncludes(lowerFeatures(playground),
                      {"caf@", "cafe", "food", "refreshments"})
    [] category = "parking" ->
         someIncludes(lowerFeatures(playground),
                      {"free parking", "parking", "car park"})
    [] category = "late" ->
         /\ playground.hasHours
         /\ \E day \in DOMAIN playground.opening_hours :
              closesLate(playground.opening_hours[day])
    [] OTHER -> TRUE

\* faulty variant of featureMatches: one selected tag is enough
featureMatchesAny(playground, selectedFeatures) ==
  \E k \in 1..Len(selectedFeatures) :
    /\ playground.hasFeatures
    /\ \E j \in 1..Len(playground.features) :
         includes(toLowerCase(playground.features[j]),
                  toLowerCase(selectedFeatures[k]))

\* part_000 lines 125-129: every selected tag is in some feature of the venue
featureMatches(playground, selectedFeatures) ==
  \A k \in 1..Len(selectedFeatures) :
    /\ playground.hasFeatures
    /\ \E j \in 1..Len(playground.features) :
         includes(toLowerCase(playground.features[j]),
                  toLowerCase(selectedFeatures[k]))

\* part_000 lines 222-226: the same test in the mock path
mockFeatureMatches(playground, selectedFeatures) ==
  \A k \in 1..Len(selectedFeatures) :
    /\ playground.hasFeatures
    /\ \E j \in 1..Len(playground.features) :
         includes(toLowerCase(playground.features[j]),
                  toLowerCase(selectedFeatures[k]))

\* faulty variant of minOf: Math.max for Math.min
maxOf(numbers) ==
  CHOOSE r \in {numbers[k] : k \in 1..Len(numbers)} :
    \A k \in 1..Len(numbers) : r >= numbers[k]

\* part_000 lines 134 and 231: Math.min(...selectedRatings)
minOf(numbers) ==
  CHOOSE r \in {numbers[k] : k \in 1..Len(numbers)} :
    \A k \in 1..Len(numbers) : r <= numbers[k]

\* part_000 lines 135-137 and 232-234; a rating of 0 is falsy
ratingMatches(playground, minRating) ==
  /\ playground.hasRating /\ playground.google_rating # 0
  /\ playground.google_rating >= minRating

\* part_000 lines 141-145 and 238-242
openOn(playground, currentDay) ==
  /\ playground.hasHours
  /\ currentDay \in DOMAIN playground.opening_hours
  /\ Len(playground.opening_hours[currentDay]) > 0

\* what `await query` can hand back as data: an array of rows, null, or the
\* body of the response that the client's fetch override makes up for a
\* failed request (supabase.ts lines 44-51), which is an object, no array
ArrayData(items) == [kind |-> "array", items |-> items]
NullData == [kind |-> "null", items |-> <<>>]
NetworkErrorBody == [kind |-> "object", items |-> <<>>]

\* part_000 lines 72-146: the try block after the await.  A value that is
\* no array has no length and no filter method: the category step is
\* skipped and the first of the later steps that runs throws a TypeError.
livePipeline(data, d) ==
  IF data.kind = "object"
  THEN IF Len(d.selectedFeatures) > 0 \/ Len(d.selectedRatings) > 0
          \/ d.openToday
       THEN [threw |-> TRUE, isArray |-> FALSE, items |-> <<>>]
       ELSE [threw |-> FALSE, isArray |-> FALSE, items |-> <<>>]
  ELSE LET f0 == data.items
           f1 == IF d.category # "" /\ Len(f0) > 0
                 THEN SelectSeq(f0, LAMBDA id :
                        LET p == Venues[id] IN categoryMatches(p, d.category))
                 ELSE f0
           f2 == IF Len(d.selectedFeatures) > 0
                 THEN SelectSeq(f1, LAMBDA id :
                        LET p == Venues[id] IN featureMatches(p, d.selectedFeatures))
                 ELSE f1
           f3 == IF Len(d.selectedRatings) > 0
                 THEN SelectSeq(f2, LAMBDA id :
                        LET p == Venues[id] IN ratingMatches(p, minOf(d.selectedRatings)))
                 ELSE f2
           f4 == IF d.openToday
                 THEN SelectSeq(f3, LAMBDA id : LET p == Venues[id] IN openOn(p, d.currentDay))
                 ELSE f3
       IN [threw |-> FALSE, isArray |-> TRUE, items |-> f4]

\* part_000 lines 155-243: the filters of the catch block
mockPipeline(collection, d) ==
  LET m1 == IF d.keyword # ""
            THEN SelectSeq(collection, LAMBDA id : LET p == Venues[id] IN
                   \/ includes(toLowerCase(p.name), toLowerCase(d.keyword))
                   \/ includes(toLowerCase(p.description),
                               toLowerCase(d.keyword)))
            ELSE collection
      m2 == IF d.location # ""
            THEN SelectSeq(m1, LAMBDA id : LET p == Venues[id] IN
                   \/ includes(toLowerCase(p.city), toLowerCase(d.location))
                   \/ includes(toLowerCase(p.postcode),
                               toLowerCase(d.location)))
            ELSE m1
      m3 == IF d.category # ""
            THEN SelectSeq(m2, LAMBDA id :
                   LET p == Venues[id] IN mockCategoryMatches(p, d.category))
            ELSE m2
      m4 == IF Len(d.selectedFeatures) > 0
            THEN SelectSeq(m3, LAMBDA id :
                   LET p == Venues[id] IN mockFeatureMatches(p, d.selectedFeatures))
            ELSE m3
      m5 == IF Len(d.selectedRatings) > 0
            THEN SelectSeq(m4, LAMBDA id :
                   LET p == Venues[id] IN ratingMatches(p, minOf(d.selectedRatings)))
            ELSE m4
      m6 == IF d.openToday
            THEN SelectSeq(m5, LAMBDA id : LET p == Venues[id] IN openOn(p, d.currentDay))
            ELSE m5
  IN m6

\* text from position i on matches pattern from position j on: % stands for
\* any run of characters and _ for any one character
RECURSIVE likeAt(_, _, _, _)
likeAt(text, pattern, i, j) ==
  IF j > Len(pattern) THEN i > Len(text)
  ELSE IF CharAt(pattern, j) = "%"
       THEN \E k \in i..(Len(text) + 1) : likeAt(text, pattern, k, j + 1)
       ELSE /\ i <= Len(text)
            /\ CharAt(pattern, j) = "_" \/ CharAt(pattern, j) = CharAt(text, i)
            /\ likeAt(text, pattern, i + 1, j + 1)

\* part_000 lines 60 and 65: the ilike operator of the remote filter, a
\* pattern match that ignores case
ilike(text, pattern) == likeAt(toLowerCase(text), toLowerCase(pattern), 1, 1)

\* part_000 lines 54-68: the rows the remote query selects from a table,
\* name or description ilike %keyword% and city or postcode ilike %location%
remoteSelect(table, d) ==
  LET r1 == IF d.keyword # ""
            THEN SelectSeq(table, LAMBDA id : LET p == Venues[id] IN
                   \/ ilike(p.name, "%" \o d.keyword \o "%")
                   \/ ilike(p.description, "%" \o d.keyword \o "%"))
            ELSE table
  IN IF d.location # ""
     THEN SelectSeq(r1, LAMBDA id : LET p == Venues[id] IN
            \/ ilike(p.city, "%" \o d.location \o "%")
            \/ ilike(p.postcode, "%" \o d.location \o "%"))
     ELSE r1

\* ------------------------------------------------------- query descriptors
\* the sequences without repetition of at most n elements of S
ListsUpTo(S, n) ==
  UNION {{l \in [1..k -> S] : \A i, j \in 1..k : i # j => l[i] # l[j]} :
           k \in 0..n}

Keywords == {"", "JUNGLE", "so_t"}
Locations == {"", "london"}
Categories == {"", "toddler", "party", "cafe", "parking", "late", "soft-play"}
FeatureChoices == {"Soft Play", "Caf@", "Toddler Area"}   \* of part_000 line 348
RatingChoices == {45, 40, 30}   \* of part_000 line 369, in tenths
Today == {[openToday |-> FALSE, currentDay |-> "Friday"],
          [openToday |-> TRUE, currentDay |-> "Monday"]}

Descriptors ==
  {[keyword |-> k, location |-> l, category |-> c, selectedFeatures |-> f,
    selectedRatings |-> r, openToday |-> t.openToday,
    currentDay |-> t.currentDay] :
     k \in Keywords, l \in Locations, c \in Categories,
     f \in ListsUpTo(FeatureChoices, MaxSelected),
     r \in ListsUpTo(RatingChoices, MaxSelected), t \in Today}

NoDescriptor ==
  [keyword |-> "", location |-> "", category |-> "", selectedFeatures |-> <<>>,
   selectedRatings |-> <<>>, openToday |-> FALSE, currentDay |-> "Friday"]

\* the tables the pipelines are run on
Tables == {<<>>, <<1, 2, 3, 4, 5, 6, 7>>}

\* ------------------------------------------------------------ search page
\* part_000 lines 23-27: useState initial values; playgrounds is a value
\* that is an array of venue ids or, when isArray is FALSE, some other object
NoPage ==
  [playgrounds |-> [isArray |-> TRUE, items |-> <<>>],
   loading |-> TRUE, error |-> Null, useMockData |-> FALSE]

NoSearch == [pc |-> "idle", desc |-> NoDescriptor, transport |-> "none"]

\* part_000 line 152
FailedMessage == "Failed to load soft play areas. Please try again later."

\* the rows of the remote playgrounds table
RemoteTable == <<1, 2, 3, 4, 5, 6, 7>>

\* what can become of the HTTP request of a query: a 2xx response with the
\* rows, a 2xx response without a body, an error response, no response at
\* all, or the abort by the 10 second timer of supabase.ts line 29
Transports == {"ok", "noContent", "httpError", "networkError", "aborted"}

\* the query descriptors the page is run with
SearchDescriptors ==
  {NoDescriptor,
   [NoDescriptor EXCEPT !.keyword = "JUNGLE"],
   [NoDescriptor EXCEPT !.category = "late"],
   [NoDescriptor EXCEPT !.selectedFeatures = <<"Soft Play">>]}

\* supabase.ts lines 27-53: the fetch handed to the client.  A rejected or
\* aborted request is answered with a made-up response of status 200.
fetchOverride(transport) ==
  CASE transport = "ok" -> [ok |-> TRUE, body |-> "rows"]
    [] transport = "noContent" -> [ok |-> TRUE, body |-> "empty"]
    [] transport = "httpError" -> [ok |-> FALSE, body |-> "apiError"]
    [] OTHER -> [ok |-> TRUE, body |-> "networkErrorBody"]

\* part_000 line 68: what `await query` destructures.  The client parses
\* the body of a 2xx response into data and leaves error null; it parses
\* the body of any other response into error and leaves data null.
queryResult(response, rows) ==
  IF response.ok
  THEN [data |-> CASE response.body = "rows" -> ArrayData(rows)
                   [] response.body = "empty" -> NullData
                   [] OTHER -> NetworkErrorBody,
        error |-> Null]
  ELSE [data |-> NullData, error |-> response.body]

\* faulty variant of afterAwait: the catch block keeps the list it had
afterAwaitKeepsList(pg, d, result) ==
  LET live == livePipeline(result.data, d)
  IN IF result.error # Null \/ live.threw
     THEN [pg EXCEPT !.loading = FALSE, !.error = FailedMessage,
                     !.useMockData = TRUE]
     ELSE [playgrounds |-> [isArray |-> live.isArray, items |-> live.items],
           loading |-> FALSE, error |-> pg.error, useMockData |-> FALSE]

\* part_000 lines 70-249: the rest of fetchPlaygrounds after the await
afterAwait(pg, d, result) ==
  LET live == livePipeline(result.data, d)
  IN IF result.error # Null \/ live.threw
     THEN [playgrounds |-> [isArray |-> TRUE,
                            items |-> mockPipeline(mockPlaygrounds, d)],
           loading |-> FALSE, error |-> FailedMessage, useMockData |-> TRUE]
     ELSE [playgrounds |-> [isArray |-> live.isArray, items |-> live.items],
           loading |-> FALSE, error |-> pg.error, useMockData |-> FALSE]

\* faulty variant of effectCleanup: a rerun abandons the pending invocations
effectCleanupCancels(srch) ==
  [j \in DOMAIN srch |->
     IF srch[j].pc = "awaiting" THEN [srch[j] EXCEPT !.pc = "cancelled"]
     ELSE srch[j]]

\* part_000 lines 48-253: the effect returns no cleanup function, a rerun
\* leaves the invocations that are pending as they are
effectCleanup(srch) == srch

\* part_000 lines 48-68, 252: the effect runs fetchPlaygrounds up to the await
StartSearch(i, d) ==
  /\ searches[i].pc = "idle"
  /\ i > 1 => searches[i - 1].pc # "idle"
  /\ page' = [page EXCEPT !.loading = TRUE, !.error = Null]
  /\ searches' = [effectCleanup(searches) EXCEPT ![i] =
                    [pc |-> "awaiting", desc |-> d, transport |-> "none"]]
  /\ UNCHANGED <<now, cacheVars, tcalls, qcalls, pipe>>

\* part_000 lines 68-249: the query settles and fetchPlaygrounds runs on
SearchSettles(i, transport) ==
  /\ searches[i].pc = "awaiting"
  /\ page' = afterAwait(page, searches[i].desc,
                        queryResult(fetchOverride(transport),
                                    remoteSelect(RemoteTable, searches[i].desc)))
  /\ searches' = [searches EXCEPT ![i].pc = "done",
                                  ![i].transport = transport]
  /\ UNCHANGED <<now, cacheVars, tcalls, qcalls, pipe>>

\* playgrounds.length > 0; a value without a length compares false
HasItems(pg) == pg.playgrounds.isArray /\ Len(pg.playgrounds.items) > 0

\* part_000 lines 286-290
ShowsMockBanner(pg) == pg.useMockData

\* part_000 lines 479-483
ShowsSpinner(pg) == pg.loading

\* part_000 lines 505, 514, 577: the grid, the list or the map
ShowsResults(pg) == ~pg.loading /\ pg.error = Null /\ HasItems(pg)

\* ---------------------------------------- the pipelines on given inputs
NoPipe == [table |-> <<>>, desc |-> NoDescriptor, live |-> <<>>, mock |-> <<>>]

\* the success branch on the rows the remote query returns
RunLive ==
  /\ pipe.live = <<>>
  /\ pipe' = [pipe EXCEPT !.live =
                <<livePipeline(ArrayData(remoteSelect(pipe.table, pipe.desc)),
                               pipe.desc).items>>]
  /\ UNCHANGED <<now, cacheVars, tcalls, qcalls, page, searches>>

\* the failure branch on the same rows
RunMock ==
  /\ pipe.mock = <<>>
  /\ pipe' = [pipe EXCEPT !.mock =
                <<mockPipeline(remoteSelect(pipe.table, pipe.desc), pipe.desc)>>]
  /\ UNCHANGED <<now, cacheVars, tcalls, qcalls, page, searches>>

\* ------------------------------------------------------------------- clock
\* time passes; a timer that is due runs before the clock moves on
Tick ==
  /\ now < MaxTime
  /\ \A c \in WrapIds : tcalls[c].timer = "pending" => now < tcalls[c].due
  /\ now' = now + 1
  /\ UNCHANGED <<cacheVars, tcalls, qcalls, pageVars>>

\* ----------------------------------------------------------- specification
Init ==
  /\ now = 0
  /\ cache = EmptyMap
  /\ calls = [c \in CallIds |-> NoCall]
  /\ clearLog = <<>>
  /\ tcalls = [c \in WrapIds |-> NoTimeoutCall]
  /\ qcalls = [c \in WrapIds |-> NoQuery]
  /\ page = NoPage
  /\ searches = [i \in SearchIds |-> NoSearch]
  /\ pipe = NoPipe

NextCache ==
  \/ \E c \in CallIds, key \in Keys, ttl \in TTLs : FetchWithCacheCall(c, key, ttl)
  \/ \E c \in CallIds : FetcherResolves(c)
  \/ \E c \in CallIds : FetcherRejects(c)
  \/ \E key \in ClearArgs : ClearCache(key)
  \/ Tick

SpecCache == Init /\ [][NextCache]_vars

NextWrap ==
  \/ \E c \in WrapIds, timeout \in Timeouts, fallback \in Fallbacks,
        throws \in BOOLEAN : FetchWithTimeoutCall(c, timeout, fallback, throws)
  \/ \E c \in WrapIds, v \in Values : TimeoutFetcherResolves(c, v)
  \/ \E c \in WrapIds : TimeoutFetcherRejects(c)
  \/ \E c \in WrapIds : TimerFires(c)
  \/ \E c \in WrapIds, fallbackData \in Fallbacks, throws \in BOOLEAN,
        e \in Errors : SafeSupabaseQueryCall(c, fallbackData, throws, e)
  \/ \E c \in WrapIds, result \in QueryResults : QueryResolves(c, result)
  \/ \E c \in WrapIds, e \in Errors : QueryRejects(c, e)
  \/ Tick

SpecWrap == Init /\ [][NextWrap]_vars

\* the filter pipelines as functions: every table and descriptor as input
InitFilter ==
  /\ now = 0
  /\ cache = EmptyMap
  /\ calls = [c \in CallIds |-> NoCall]
  /\ clearLog = <<>>
  /\ tcalls = [c \in WrapIds |-> NoTimeoutCall]
  /\ qcalls = [c \in WrapIds |-> NoQuery]
  /\ page = NoPage
  /\ searches = [i \in SearchIds |-> NoSearch]
  /\ \E table \in Tables, d \in Descriptors :
       pipe = [NoPipe EXCEPT !.table = table, !.desc = d]

NextFilter == RunLive \/ RunMock

SpecFilter == InitFilter /\ [][NextFilter]_vars

NextSearch ==
  \/ \E i \in SearchIds, d \in SearchDescriptors : StartSearch(i, d)
  \/ \E i \in SearchIds, transport \in Transports : SearchSettles(i, transport)

SpecSearch == Init /\ [][NextSearch]_vars

\* =================================================================== claims
Started(c) == calls[c].pc # "idle"

\* the step in which call c enters fetchWithCache
Starts(c) == calls[c].pc = "idle" /\ calls'[c].pc # "idle"

Abs(n) == IF n < 0 THEN -n ELSE n

\* C1 (as claimed): any two calls of fetchWithCache with the same key and
\* ttl that start less than ttl apart invoke the fetcher at most once in
\* total, whatever their interleaving and whatever the fetcher does.
C1_AtMostOnceAnyInterleaving ==
  \A c1, c2 \in CallIds :
    ( /\ c1 # c2 /\ Started(c1) /\ Started(c2)
      /\ calls[c1].key = calls[c2].key
      /\ calls[c1].ttl = calls[c2].ttl
      /\ Abs(calls[c1].startedAt - calls[c2].startedAt) < calls[c1].ttl )
    => ~(calls[c1].invoked /\ calls[c2].invoked)

\* C1 (amended): when a call with the same key and ttl has already returned
\* without its fetcher failing, started less than ttl ago, and the key still
\* has an entry (no clearCache removed it), the call that starts now does
\* not bring the number of fetcher invocations of the two above one.
C1_AtMostOnceSequential ==
  [][ \A c1, c2 \in CallIds :
        ( /\ c1 # c2 /\ Starts(c2)
          /\ calls[c1].pc = "returned" /\ ~calls[c1].failed
          /\ calls[c1].key = calls'[c2].key
          /\ calls[c1].ttl = calls'[c2].ttl
          /\ now - calls[c1].startedAt < calls'[c2].ttl
          /\ calls'[c2].key \in DOMAIN cache )
        => ~(calls[c1].invoked /\ calls'[c2].invoked) ]_vars

\* two calls for one key, the first fetched and returned, the second was
\* served from the cache less than ttl later
C1_Witness ==
  \E c1, c2 \in CallIds :
    /\ c1 # c2
    /\ calls[c1].pc = "returned" /\ calls[c1].invoked /\ ~calls[c1].failed
    /\ calls[c2].pc = "returned" /\ ~calls[c2].invoked
    /\ calls[c1].key = calls[c2].key /\ calls[c1].ttl = calls[c2].ttl
    /\ calls[c2].startedAt > calls[c1].startedAt
    /\ calls[c2].startedAt - calls[c1].startedAt < calls[c2].ttl
    /\ calls[c2].result = calls[c1].result

\* C2: a call that finds an entry with now - timestamp < ttl returns that
\* entry's payload without invoking the fetcher; with no entry, or with
\* now - timestamp >= ttl (exactly ttl included), the fetcher is invoked.
C2_FreshHitElseFetch ==
  \A c \in CallIds :
    Started(c) =>
      LET e == calls[c].cachedData
      IN IF e # <<>> /\ calls[c].startedAt - e[1].timestamp < calls[c].ttl
         THEN /\ ~calls[c].invoked
              /\ calls[c].pc = "returned"
              /\ calls[c].result = e[1].data
         ELSE calls[c].invoked

\* a call found an entry one tick old, with one more tick to live, and was
\* served from it without invoking its fetcher
C2_Witness ==
  \E c \in CallIds :
    /\ calls[c].pc = "returned" /\ ~calls[c].invoked
    /\ calls[c].cachedData # <<>>
    /\ calls[c].startedAt - calls[c].cachedData[1].timestamp = 1
    /\ calls[c].ttl = 2
    /\ calls[c].result = calls[c].cachedData[1].data

\* C3: when the fetcher of a call fails, the call returns the payload of the
\* entry it found for the key (stale or not) and does not raise; when it
\* found no entry, the failure reaches the caller.
C3_StaleFallbackOrThrow ==
  \A c \in CallIds :
    calls[c].failed =>
      IF calls[c].cachedData # <<>>
      THEN /\ calls[c].pc = "returned"
           /\ calls[c].result = calls[c].cachedData[1].data
      ELSE calls[c].pc = "thrown"

\* a refresh of a stale entry failed and the stale payload was returned
C3_Witness ==
  \E c \in CallIds :
    /\ calls[c].failed /\ calls[c].pc = "returned"
    /\ calls[c].cachedData # <<>>
    /\ calls[c].startedAt - calls[c].cachedData[1].timestamp >= calls[c].ttl
    /\ calls[c].result = calls[c].cachedData[1].data

\* C4: when the fetcher of a call resolves with p, the entry of the key
\* becomes (p, the time of the write) and the call returns p; a call that
\* starts while that entry is the key's entry, less than ttl after the
\* write, returns p.
C4_StoreOnSuccess ==
  [][ /\ \A c \in CallIds :
           ( /\ calls[c].pc = "awaiting" /\ calls'[c].pc # "awaiting"
             /\ ~calls'[c].failed )
           => /\ calls'[c].pc = "returned"
              /\ calls'[c].result = Payload(c)
              /\ calls[c].key \in DOMAIN cache'
              /\ cache'[calls[c].key] =
                   [data |-> Payload(c), timestamp |-> now]
      /\ \A c, d \in CallIds :
           ( /\ c # d /\ Starts(d)
             /\ calls[c].invoked /\ calls[c].pc = "returned"
             /\ ~calls[c].failed
             /\ calls'[d].key = calls[c].key
             /\ calls[c].key \in DOMAIN cache
             /\ cache[calls[c].key].data = Payload(c)
             /\ now - cache[calls[c].key].timestamp < calls'[d].ttl )
           => /\ calls'[d].pc = "returned"
              /\ calls'[d].result = Payload(c) ]_vars

\* a fetched payload was stored at a time after 0 and a later call, made
\* after the clock moved on, got it from the cache
C4_Witness ==
  \E c, d \in CallIds :
    /\ c # d
    /\ calls[c].invoked /\ ~calls[c].failed /\ calls[c].pc = "returned"
    /\ calls[c].key \in DOMAIN cache
    /\ cache[calls[c].key].data = Payload(c)
    /\ cache[calls[c].key].timestamp > 0
    /\ calls[d].pc = "returned" /\ ~calls[d].invoked
    /\ calls[d].key = calls[c].key
    /\ calls[d].startedAt > cache[calls[c].key].timestamp
    /\ calls[d].result = Payload(c)

\* the step in which clearCache is called; its argument is Last(clearLog')
Clears == Len(clearLog') = Len(clearLog) + 1

\* C5: clearCache() with no key leaves the cache without entries, and a
\* call of fetchWithCache that starts with no entry for its key invokes its
\* fetcher, whatever ttl it is given.
C5_ClearAllThenRefetch ==
  [][ /\ (Clears /\ clearLog'[Len(clearLog')] = Undefined)
           => DOMAIN cache' = {}
      /\ \A c \in CallIds :
           (Starts(c) /\ calls'[c].key \notin DOMAIN cache)
           => calls'[c].invoked /\ calls'[c].pc = "awaiting" ]_vars

\* clearCache() was called and a call then invoked its fetcher for a key
\* that an earlier call had populated at the same clock value
C5_Witness ==
  /\ clearLog # <<>> /\ clearLog[Len(clearLog)] = Undefined
  /\ \E c, d \in CallIds :
       /\ c < d
       /\ calls[c].invoked /\ calls[c].pc = "returned" /\ ~calls[c].failed
       /\ calls[d].key = calls[c].key
       /\ calls[d].invoked /\ calls[d].cachedData = <<>>
       /\ calls[d].startedAt = calls[c].startedAt

\* C6 (as claimed): clearCache(k) with a string k, the empty string
\* included, removes the entry of k and leaves every other entry as it was.
C6_ClearKeyOnly ==
  [][ \A k \in Keys :
        (Clears /\ clearLog'[Len(clearLog')] = k)
        => cache' = MapDelete(cache, k) ]_vars

\* C7: fetchWithTimeout returns fallback whenever the fetcher is unsettled
\* when the timer fires, and returns the fetcher's value whenever the
\* fetcher resolves before the timer fires.
C7_TimeoutRace ==
  \A c \in WrapIds :
    LET t == tcalls[c]
    IN /\ (t.timer = "fired" /\ t.op = "pending")
            => (t.pc = "returned" /\ t.value = t.fallback)
       /\ t.raceBy = "timer"
            => (t.pc = "returned" /\ t.value = t.fallback)
       /\ (t.op = "resolved" /\ t.timer = "pending")
            => (t.pc = "returned" /\ t.value = t.opValue)
       /\ (t.op = "resolved" /\ t.raceBy = "fetcher")
            => (t.pc = "returned" /\ t.value = t.opValue)

\* the timer fired first and "X" was returned; the fetcher resolved later
C7_Witness ==
  \E c \in WrapIds :
    /\ tcalls[c].raceBy = "timer" /\ tcalls[c].timer = "fired"
    /\ tcalls[c].op = "resolved"
    /\ tcalls[c].fallback = "X"
    /\ tcalls[c].pc = "returned" /\ tcalls[c].value = "X"

\* C8 (as claimed): once a fetchWithTimeout call has returned, the timer it
\* created is no longer pending.
C8_TimerCleared ==
  \A c \in WrapIds :
    tcalls[c].pc = "returned" => tcalls[c].timer # "pending"

QueryFailed(q) ==
  \/ q.op \in {"threw", "rejected"}
  \/ q.op = "resolved" /\ ~q.opResult.isObject
  \/ q.op = "resolved" /\ q.opResult.isObject /\ q.opResult.error = "E1"

\* C9: no call of fetchWithTimeout or safeSupabaseQuery ends by throwing:
\* once the operation has thrown, rejected or resolved, or the timer has
\* won the race, the call has returned, and in the failing cases with the
\* fallback value, or with a triple carrying fallbackData and usedFallback.
C9_NeverRejects ==
  \A c \in WrapIds :
    LET t == tcalls[c]
        q == qcalls[c]
    IN /\ t.pc \in {"idle", "awaiting", "returned"}
       /\ q.pc \in {"idle", "awaiting", "returned"}
       /\ (t.op \in {"threw", "rejected", "resolved"} \/ t.timer = "fired")
            => t.pc = "returned"
       /\ ( \/ t.op = "threw"
            \/ t.op = "rejected" /\ t.raceBy = "fetcher"
            \/ t.raceBy = "timer" ) => t.value = t.fallback
       /\ q.op \in {"threw", "rejected", "resolved"} => q.pc = "returned"
       /\ QueryFailed(q)
            => /\ q.triple.data = q.fallbackData
               /\ q.triple.usedFallback

\* a queryFn resolved with null and the call returned the fallback triple
C9_Witness ==
  \E c \in WrapIds :
    /\ qcalls[c].op = "resolved" /\ ~qcalls[c].opResult.isObject
    /\ qcalls[c].pc = "returned"
    /\ qcalls[c].fallbackData = "X"
    /\ qcalls[c].triple.data = "X" /\ qcalls[c].triple.usedFallback

NonNull(v) == v # Null /\ v # Undefined

\* C10 (as claimed): the triple is {fallbackData, e, true} when queryFn
\* raised e or the result carries an error indicator e, it is
\* {result.data, null, false} otherwise, and usedFallback is true exactly
\* when the returned error is non-null.
C10_TripleAsClaimed ==
  \A c \in WrapIds :
    LET q == qcalls[c]
    IN q.pc = "returned" =>
         /\ IF q.op \in {"threw", "rejected"}
            THEN q.triple = [data |-> q.fallbackData, error |-> q.opError,
                             usedFallback |-> TRUE]
            ELSE IF q.opResult.isObject /\ NonNull(q.opResult.error)
                 THEN q.triple = [data |-> q.fallbackData,
                                  error |-> q.opResult.error,
                                  usedFallback |-> TRUE]
                 ELSE q.triple = [data |-> q.opResult.data, error |-> Null,
                                  usedFallback |-> FALSE]
         /\ q.triple.usedFallback <=> NonNull(q.triple.error)

\* C10 (amended): the triple is {fallbackData, e, true} when queryFn raised
\* e, when the result's error field e is truthy, and, with e the TypeError
\* of reading null.error, when the result is null or undefined; it is
\* {result.data, null, false} otherwise.  usedFallback false implies a null
\* error; usedFallback true implies a non-null error unless queryFn raised
\* null or undefined.
C10_Triple ==
  \A c \in WrapIds :
    LET q == qcalls[c]
    IN q.pc = "returned" =>
         /\ IF q.op \in {"threw", "rejected"}
            THEN q.triple = [data |-> q.fallbackData, error |-> q.opError,
                             usedFallback |-> TRUE]
            ELSE IF ~q.opResult.isObject
                 THEN q.triple = [data |-> q.fallbackData,
                                  error |-> TypeError,
                                  usedFallback |-> TRUE]
                 ELSE IF q.opResult.error \notin {Null, Undefined, ""}
                      THEN q.triple = [data |-> q.fallbackData,
                                       error |-> q.opResult.error,
                                       usedFallback |-> TRUE]
                      ELSE q.triple = [data |-> q.opResult.data,
                                       error |-> Null,
                                       usedFallback |-> FALSE]
         /\ ~q.triple.usedFallback => q.triple.error = Null
         /\ (q.triple.usedFallback /\ ~NonNull(q.triple.error))
              => (q.op \in {"threw", "rejected"} /\ ~NonNull(q.opError))

\* a result whose error field is the empty string was passed through as a
\* success
C10_Witness ==
  \E c \in WrapIds :
    /\ qcalls[c].pc = "returned" /\ qcalls[c].op = "resolved"
    /\ qcalls[c].opResult.isObject /\ qcalls[c].opResult.error = ""
    /\ qcalls[c].fallbackData = "X"
    /\ qcalls[c].triple = [data |-> "d1", error |-> Null,
                           usedFallback |-> FALSE]

\* ------------------------------------------------- concurrent cache calls
\* the step in which the fetcher of call c resolves
Resolves(c) ==
  calls[c].pc = "awaiting" /\ calls'[c].pc = "returned" /\ ~calls'[c].failed

\* C17: a call that is awaiting its fetcher does not keep another call for
\* the same key from missing: the call that starts meanwhile invokes its
\* fetcher unless it finds a stored entry that is fresh for its ttl, so two
\* calls that start on a key without an entry both invoke.  Every fetcher
\* that resolves replaces the whole entry of its key by its own payload
\* and time, whichever call started first and whatever entry another call
\* has written meanwhile.
C17_BothMissLastWriteWins ==
  [][ /\ \A c1, c2 \in CallIds :
          ( /\ c1 # c2 /\ calls[c1].pc = "awaiting" /\ Starts(c2)
            /\ calls'[c2].key = calls[c1].key )
          => /\ calls'[c2].invoked <=>
                  ~( /\ MapGet(cache, calls[c1].key) # <<>>
                     /\ now - MapGet(cache, calls[c1].key)[1].timestamp
                          < calls'[c2].ttl )
             /\ MapGet(cache, calls[c1].key) = <<>> =>
                  calls'[c2].pc = "awaiting"
      /\ \A c \in CallIds :
          Resolves(c) =>
            /\ MapGet(cache', calls[c].key)
                 = <<[data |-> Payload(c), timestamp |-> now]>>
            /\ \A key \in Keys \ {calls[c].key} :
                 MapGet(cache', key) = MapGet(cache, key) ]_vars

\* two calls for one key were awaiting their fetchers together; the one
\* that started later resolved first and the entry that remains is the one
\* of the call that started first
C17_Witness ==
  /\ calls[1].pc = "returned" /\ calls[2].pc = "returned"
  /\ calls[1].key = calls[2].key
  /\ calls[1].invoked /\ calls[2].invoked
  /\ ~calls[1].failed /\ ~calls[2].failed
  /\ calls[1].cachedData = <<>> /\ calls[2].cachedData = <<>>
  /\ clearLog = <<>>
  /\ calls[1].result = Payload(1) /\ calls[2].result = Payload(2)
  /\ MapGet(cache, calls[1].key) # <<>>
  /\ MapGet(cache, calls[1].key)[1].data = Payload(1)

\* ----------------------------------------------------- the filter steps
\* the input of the pipelines has no criterion but the ratings
OnlyRatings(d) ==
  /\ d.keyword = "" /\ d.location = "" /\ d.category = ""
  /\ d.selectedFeatures = <<>> /\ ~d.openToday

\* the input of the pipelines has no criterion but the feature tags
OnlyFeatures(d) ==
  /\ d.keyword = "" /\ d.location = "" /\ d.category = ""
  /\ d.selectedRatings = <<>> /\ ~d.openToday

\* the input of the pipelines has no criterion but the category
OnlyCategory(d) ==
  /\ d.keyword = "" /\ d.location = ""
  /\ d.selectedFeatures = <<>> /\ d.selectedRatings = <<>> /\ ~d.openToday

\* the outputs of the two branches that have run
Outputs == {pipe.live[k] : k \in 1..Len(pipe.live)}
             \cup {pipe.mock[k] : k \in 1..Len(pipe.mock)}

\* C13: with a non-empty selection R of rating thresholds, the rating step
\* keeps exactly the venues that have a rating >= min(R): each branch gives
\* what it gives for the single threshold min(R), and with no other
\* criterion active the output is the venues of the table that have a
\* rating of at least min(R); venues without a rating are excluded.
C13_RatingIsMin ==
  LET d == pipe.desc
      R == {d.selectedRatings[k] : k \in 1..Len(d.selectedRatings)}
  IN R # {} =>
       LET least == CHOOSE r \in R : \A q \in R : r <= q
           single == [d EXCEPT !.selectedRatings = <<least>>]
           rows == remoteSelect(pipe.table, d)
       IN /\ pipe.live # <<>> =>
               pipe.live[1] = livePipeline(ArrayData(rows), single).items
          /\ pipe.mock # <<>> => pipe.mock[1] = mockPipeline(rows, single)
          /\ \A out \in Outputs :
               /\ \A k \in 1..Len(out) : Venues[out[k]].hasRating
               /\ OnlyRatings(d) =>
                    out = SelectSeq(pipe.table, LAMBDA id :
                            /\ Venues[id].hasRating
                            /\ Venues[id].google_rating > 0
                            /\ Venues[id].google_rating >= least)

\* both branches ran with two thresholds, the larger one selected first, on
\* a table with a venue between the two thresholds and a venue without a rating
C13_Witness ==
  /\ pipe.live # <<>> /\ pipe.mock # <<>>
  /\ OnlyRatings(pipe.desc)
  /\ pipe.desc.selectedRatings = <<45, 30>>
  /\ pipe.table = <<1, 2, 3, 4, 5, 6, 7>>
  /\ pipe.live[1] = <<1, 2, 3, 5, 7>>

\* C14: with no other criterion active, the output is exactly the venues v
\* of the table such that every selected tag is, ignoring case, a substring
\* of at least one feature tag of v; a venue without a feature list is
\* excluded when the selection is non-empty, and the empty selection keeps
\* the whole table.
C14_FeaturesConjunctive ==
  LET d == pipe.desc
      S == {d.selectedFeatures[k] : k \in 1..Len(d.selectedFeatures)}
  IN OnlyFeatures(d) =>
       \A out \in Outputs :
         /\ out = SelectSeq(pipe.table, LAMBDA id :
                    \A sel \in S :
                      /\ Venues[id].hasFeatures
                      /\ \E tag \in {Venues[id].features[j] :
                                       j \in 1..Len(Venues[id].features)} :
                           includes(toLowerCase(tag), toLowerCase(sel)))
         /\ S # {} => \A k \in 1..Len(out) : Venues[out[k]].hasFeatures
         /\ S = {} => out = pipe.table

\* both branches ran with two selected tags: venues 1 and 3 have both,
\* venue 2 has the second one only, venue 4 has no feature list
C14_Witness ==
  /\ pipe.live # <<>> /\ pipe.mock # <<>>
  /\ OnlyFeatures(pipe.desc)
  /\ pipe.desc.selectedFeatures = <<"Soft Play", "Caf@">>
  /\ pipe.table = <<1, 2, 3, 4, 5, 6, 7>>
  /\ pipe.live[1] = <<1, 3>>
  /\ pipe.mock[1] = <<1, 3>>

\* the hour of the closing time of the opening-hours entries of the venue
\* records; an entry that is missing here has no closing part
ClosingHour ==
  ("9:00-18:00" :> 18) @@ ("9:00-18:30" :> 18) @@ ("9:00-19:00" :> 19)
    @@ ("9:00-20:00" :> 20) @@ ("10:00-17:30" :> 17) @@ ("10:00-18:00" :> 18)
    @@ ("10:00-20:00" :> 20) @@ ("9:30-17:30" :> 17) @@ ("9:30-18:30" :> 18)
    @@ ("9:00 - 17:00" :> 17)

\* C15: with category "late" a venue is kept if and only if at least one
\* entry of its opening-hours mapping has a closing time whose hour is
\* >= 18; a venue without opening hours, or whose entries have no closing
\* part, is excluded.
C15_LateClosing ==
  LET d == pipe.desc
  IN OnlyCategory(d) /\ d.category = "late" =>
       \A out \in Outputs :
         out = SelectSeq(pipe.table, LAMBDA id :
                 /\ Venues[id].hasHours
                 /\ \E day \in DOMAIN Venues[id].opening_hours :
                      /\ Venues[id].opening_hours[day] \in DOMAIN ClosingHour
                      /\ ClosingHour[Venues[id].opening_hours[day]] >= 18)

\* both branches ran with category "late": venue 7 (Friday 9:30-18:30) is
\* kept, venue 5 (9:30-17:30), venue 4 (no opening hours) and venue 6 (no
\* closing part) are not
C15_Witness ==
  /\ pipe.live # <<>> /\ pipe.mock # <<>>
  /\ OnlyCategory(pipe.desc) /\ pipe.desc.category = "late"
  /\ pipe.table = <<1, 2, 3, 4, 5, 6, 7>>
  /\ pipe.live[1] = <<1, 2, 3, 7>>
  /\ pipe.mock[1] = <<1, 2, 3, 7>>

\* C16: for every table and every query descriptor, the success branch on
\* the rows the remote query returns and the failure branch on the same
\* rows produce the same display set.
C16_SamePipeline ==
  pipe.live # <<>> /\ pipe.mock # <<>> => pipe.live = pipe.mock

\* ------------------------------------------------------- the search page
\* the step in which invocation i of fetchPlaygrounds starts
SearchStarts(i) == searches[i].pc = "idle" /\ searches'[i].pc = "awaiting"

\* the step in which the query of invocation i settles and the invocation ends
SearchEnds(i) == searches[i].pc = "awaiting" /\ searches'[i].pc = "done"

\* the request of the query failed: no response, the abort after 10 s, or
\* an error response
FailedTransports == {"networkError", "aborted", "httpError"}

\* C11: whenever the remote query of an invocation fails (network failure,
\* abort after 10 s, or an error in the response), the invocation ends with
\* the display set equal to the filter pipeline applied to the bundled mock
\* dataset and with useMockData true.
C11_FailureShowsMockData ==
  [][ \A i \in SearchIds :
        SearchEnds(i) /\ searches'[i].transport \in FailedTransports =>
          /\ page'.playgrounds =
               [isArray |-> TRUE,
                items |-> mockPipeline(mockPlaygrounds, searches[i].desc)]
          /\ page'.useMockData ]_vars

\* C12: after a failed remote fetch, once loading has finished and the
\* substituted mock result set is non-empty, the result list is shown
\* together with the banner.
C12_MockResultsRendered ==
  page.useMockData /\ ~page.loading /\ HasItems(page) =>
    ShowsResults(page) /\ ShowsMockBanner(page)

\* the display state: the result set and the fallback flag
Display(pg) == <<pg.playgrounds, pg.useMockData>>

\* C18: an invocation leaves the display state alone when it starts and
\* writes it once, when its query has settled and its filters have run; a
\* start cancels no pending invocation, every pending invocation still
\* writes, and the display state is the one of the invocation that ended
\* last, whichever started first.
C18_LastWriterWins ==
  [][ /\ \A i \in SearchIds :
          SearchStarts(i) =>
            /\ Display(page') = Display(page)
            /\ \A j \in SearchIds \ {i} : searches'[j] = searches[j]
      /\ \A i \in SearchIds :
          SearchEnds(i) =>
            /\ Display(page') =
                 Display(afterAwait(page, searches[i].desc,
                           queryResult(fetchOverride(searches'[i].transport),
                                       remoteSelect(RemoteTable,
                                                    searches[i].desc))))
            /\ \A j \in SearchIds \ {i} : searches'[j] = searches[j]
      /\ \A i \in SearchIds :
          /\ searches[i].pc = "awaiting" =>
               searches'[i].pc \in {"awaiting", "done"}
          /\ searches[i].pc = "done" => searches'[i] = searches[i]
      /\ Display(page') # Display(page) => \E i \in SearchIds : SearchEnds(i)
    ]_vars

\* the second invocation started while the first was pending and ended
\* first; the display shows the rows of the first, older descriptor
C18_Witness ==
  /\ searches[1].pc = "done" /\ searches[2].pc = "done"
  /\ searches[1].transport = "ok" /\ searches[2].transport = "ok"
  /\ searches[1].desc = [NoDescriptor EXCEPT !.keyword = "JUNGLE"]
  /\ searches[2].desc = [NoDescriptor EXCEPT !.category = "late"]
  /\ page.playgrounds = [isArray |-> TRUE, items |-> <<3, 5>>]
  /\ ~page.useMockData

\* C19: loading is true in every state in which the query of some
\* invocation is still in flight.
C19_LoadingWhileInFlight ==
  (\E i \in SearchIds : searches[i].pc = "awaiting") => page.loading

====
